---- MODULE Spec2Model ----
(***************************************************************************)
(* A model of src/main.py: the crater-detection pipeline.                  *)
(*                                                                         *)
(* Strings are sequences of one-character strings, so that suffix tests,   *)
(* stems and '/'-joins are computed character by character.                *)
(* A float is an integer count of sixteenths (a dyadic rational, as every  *)
(* binary float is); a field of an output row is an integer count of       *)
(* hundredths, which is what round(x, 2) yields.                           *)
(***************************************************************************)
EXTENDS Integers, Sequences, FiniteSets, TLC

VARIABLES pc, images, idx, img, image_id, detections, fitted, out, owner, log, ids

vars == <<pc, images, idx, img, image_id, detections, fitted, out, owner, log, ids>>

(***************************************************************************)
(* Bounds of the model.                                                    *)
(***************************************************************************)
\* files met by one walk of the dataset root
MaxImages == 2
\* boundary curves found in one image
MaxContours == 2
\* directory levels between the dataset root and a file
MaxDepth == 3

(***************************************************************************)
(* Strings and paths.                                                      *)
(***************************************************************************)
Last(s) == s[Len(s)]

\* src/main.py:10  (a path is the sequence of its components)
DATASET_ROOT == << <<"t", "e", "s", "t">> >>

\* src/main.py:13
IMAGE_EXTENSIONS ==
    << <<".", "p", "n", "g">>,
       <<".", "j", "p", "g">>,
       <<".", "j", "p", "e", "g">>,
       <<".", "t", "i", "f">>,
       <<".", "t", "i", "f", "f">> >>

\* str.lower on the characters the file names use
lowerChar(c) ==
    CASE c = "X" -> "x"
      [] c = "P" -> "p"
      [] c = "N" -> "n"
      [] c = "G" -> "g"
      [] OTHER -> c

lower(s) == [i \in 1..Len(s) |-> lowerChar(s[i])]

\* str.endswith with a tuple of suffixes
endswith(s, suffixes) ==
    \E k \in 1..Len(suffixes) :
        /\ Len(suffixes[k]) <= Len(s)
        /\ SubSeq(s, Len(s) - Len(suffixes[k]) + 1, Len(s)) = suffixes[k]

\* src/main.py:18-24; walk is the sequence of files os.walk meets, in its order
collect_images(walk) ==
    SelectSeq(walk, LAMBDA p : endswith(lower(Last(p)), IMAGE_EXTENSIONS))

\* Path.relative_to for a path that lies under other
relative_to(path, other) == SubSeq(path, Len(other) + 1, Len(path))

\* str.rfind('.') as a 1-based position, 0 when there is no dot
rfindDot(name) ==
    LET dots == {i \in 1..Len(name) : name[i] = "."}
    IN  IF dots = {} THEN 0 ELSE CHOOSE i \in dots : \A j \in dots : j <= i

\* A mutant of stem: cuts at the first dot instead of the last.
stemFirstDot(path) ==
    LET name == Last(path)
        dots == {i \in 1..Len(name) : name[i] = "."}
        i    == IF dots = {} THEN 0 ELSE CHOOSE k \in dots : \A j \in dots : k <= j
    IN  IF i > 1 /\ i < Len(name) THEN SubSeq(name, 1, i - 1) ELSE name

\* Path.stem: the name without its last suffix; a leading or a trailing dot
\* starts no suffix
stem(path) ==
    LET name == Last(path)
        i    == rfindDot(name)
    IN  IF i > 1 /\ i < Len(name) THEN SubSeq(name, 1, i - 1) ELSE name

\* src/main.py:33-36: parts[1] of a one-component relative path raises IndexError
image_id_raises(img_path, dataset_root) ==
    Len(relative_to(img_path, dataset_root)) < 2

\* A mutant of image_id_from_path: the second directory is left out.
image_id_first_dir_only(img_path, dataset_root) ==
    LET parts == relative_to(img_path, dataset_root)
    IN  parts[1] \o <<"/">> \o stem(img_path)

\* src/main.py:27-36, when it returns
image_id_from_path(img_path, dataset_root) ==
    LET rel        == relative_to(img_path, dataset_root)
        parts      == rel
        image_name == stem(img_path)
    IN  parts[1] \o <<"/">> \o parts[2] \o <<"/">> \o image_name

(***************************************************************************)
(* Numbers.                                                                *)
(***************************************************************************)
\* the float whose value is the integer n, in sixteenths
Float(n) == 16 * n

\* the float n + k/16
Frac(n, k) == 16 * n + k

\* the integer n as a field of an output row, in hundredths
whole(n) == 100 * n

\* src/main.py:59
MinPoints == 5

\* src/main.py:66
MinAxis == 10

\* src/main.py:73: x / 2; the fitted axis lengths of the model are whole
\* eighths, so the half is exact, as it is for a binary float
half(x) == x \div 2

\* src/main.py:124-128: round(float(x), 2), correctly rounded with ties going
\* to the even hundredth; x in sixteenths, the result in hundredths
round(x) ==
    LET n == 100 * x
        q == n \div 16
        r == n % 16
    IN  IF r < 8 THEN q
        ELSE IF r > 8 THEN q + 1
        ELSE IF q % 2 = 0 THEN q ELSE q + 1

(***************************************************************************)
(* The crater detector.  A sample grid is known by the boundary curves the *)
(* blur, threshold, edge and contour steps find in it, and a boundary      *)
(* curve by its number of points and by the ellipse cv2.fitEllipse returns *)
(* for it: ((cx, cy), (major, minor), angle).                              *)
(***************************************************************************)
\* src/main.py:105: imread returned None
None == [ok |-> FALSE, contours |-> <<>>]

\* src/main.py:48-55
findContours(grid) == grid.contours

\* src/main.py:59: len(cnt)
len(cnt) == cnt.npts

\* src/main.py:62
fitEllipse(cnt) == cnt.fit

\* A mutant of small_artifact: rejects only when both axes are short.
small_artifact_both(major, minor) ==
    major < Float(MinAxis) /\ minor < Float(MinAxis)

\* src/main.py:66
small_artifact(major, minor) ==
    major < Float(MinAxis) \/ minor < Float(MinAxis)

\* A mutant of detection: the axes are halved but never swapped.
detection_unswapped(ellipse) ==
    <<ellipse[1][1], ellipse[1][2], half(ellipse[2][1]), half(ellipse[2][2]),
      ellipse[3]>>

\* A mutant of detection: the angle is turned by 90 degrees with the swap.
detection_turned(ellipse) ==
    LET major == ellipse[2][1]
        minor == ellipse[2][2]
    IN  IF minor > major
        THEN <<ellipse[1][1], ellipse[1][2], half(minor), half(major),
               ellipse[3] + Float(90)>>
        ELSE <<ellipse[1][1], ellipse[1][2], half(major), half(minor),
               ellipse[3]>>

\* src/main.py:63, 69-73: the tuple appended for an accepted fit
detection(ellipse) ==
    LET cx    == ellipse[1][1]
        cy    == ellipse[1][2]
        major == ellipse[2][1]
        minor == ellipse[2][2]
        angle == ellipse[3]
        axes  == IF minor > major THEN <<minor, major>> ELSE <<major, minor>>
    IN  <<cx, cy, half(axes[1]), half(axes[2]), angle>>

\* src/main.py:59, negated: the curve goes on to the fit
enough_points(cnt) == ~(len(cnt) < MinPoints)

\* src/main.py:57-75: the loop over the contours; fitted collects the curves
\* handed to cv2.fitEllipse
RECURSIVE detect_loop(_, _, _)
detect_loop(contours, dets, fits) ==
    IF contours = <<>>
    THEN [detections |-> dets, fitted |-> fits]
    ELSE LET cnt  == Head(contours)
             rest == Tail(contours)
         IN  IF ~enough_points(cnt)
             THEN detect_loop(rest, dets, fits)
             ELSE LET ellipse == fitEllipse(cnt)
                  IN  IF small_artifact(ellipse[2][1], ellipse[2][2])
                      THEN detect_loop(rest, dets, Append(fits, cnt))
                      ELSE detect_loop(rest,
                                       Append(dets, detection(ellipse)),
                                       Append(fits, cnt))

\* src/main.py:42-75
detect_craters(grid) == detect_loop(findContours(grid), <<>>, <<>>)

(***************************************************************************)
(* The rows of the output.                                                 *)
(***************************************************************************)
\* src/main.py:93-101
HEADER ==
    <<"ellipseCenterX(px)", "ellipseCenterY(px)", "ellipseSemimajor(px)",
      "ellipseSemiminor(px)", "ellipseRotation(deg)", "inputImage",
      "crater_classification">>

\* src/main.py:116-120
sentinel_row(id) ==
    <<whole(-1), whole(-1), whole(-1), whole(-1), whole(-1), id, whole(-1)>>

\* src/main.py:123-131
ellipse_row(d, id) ==
    <<round(d[1]), round(d[2]), round(d[3]), round(d[4]), round(d[5]), id,
      whole(-1)>>

\* A mutant of rows_of: the rows of an image in reverse order.
rows_of_reversed(dets, id) ==
    IF Len(dets) = 0
    THEN <<sentinel_row(id)>>
    ELSE [k \in 1..Len(dets) |-> ellipse_row(dets[Len(dets) + 1 - k], id)]

\* src/main.py:115-131: the rows written for one image
rows_of(dets, id) ==
    IF Len(dets) = 0
    THEN <<sentinel_row(id)>>
    ELSE [k \in 1..Len(dets) |-> ellipse_row(dets[k], id)]

(***************************************************************************)
(* The inputs of the model: file names, dataset trees, fitted ellipses.    *)
(***************************************************************************)
x_png == <<"x", ".", "p", "n", "g">>

x_jpg == <<"x", ".", "j", "p", "g">>

X_PNG == <<"X", ".", "P", "N", "G">>

x_y_png == <<"x", ".", "y", ".", "p", "n", "g">>

dot_png == <<".", "p", "n", "g">>

x_tiff == <<"x", ".", "t", "i", "f", "f">>

x_txt == <<"x", ".", "t", "x", "t">>

FileNames == {x_png, x_jpg, X_PNG, x_y_png, dot_png, x_tiff, x_txt}

\* a directory may be named like an image
DirNames == {<<"A">>, x_png}

\* every file at most MaxDepth directories below the dataset root
Files ==
    UNION {{DATASET_ROOT \o ds \o <<f>> : ds \in [1..d -> DirNames], f \in FileNames} :
           d \in 0..MaxDepth}

\* the files of the runs of main: in the root, one and two directories below
MainFiles ==
    {DATASET_ROOT \o <<x_png>>,
     DATASET_ROOT \o <<<<"a">>, x_png>>,
     DATASET_ROOT \o <<<<"a">>, <<"b">>, x_png>>,
     DATASET_ROOT \o <<<<"a">>, <<"b">>, x_txt>>}

\* the orders in which a walk can meet at most n files of S
Walks(S, n) ==
    {w \in UNION {[1..k -> S] : k \in 0..n} :
        \A i, j \in 1..Len(w) : i # j => w[i] # w[j]}

\* the spec's disk: centre (100, 100), full axes 40 x 20, 30 degrees
FitDisk == <<<<Float(100), Float(100)>>, <<Float(40), Float(20)>>, Float(30)>>

\* the axes in the other order, a centre that rounds at a tie
FitReversed == <<<<Frac(100, 2), Float(50)>>, <<Float(20), Float(40)>>, Float(30)>>

\* the spec's artifact: major 8, minor 20
FitArtifact == <<<<Float(-1), Float(-1)>>, <<Float(8), Float(20)>>, Float(0)>>

\* both axes exactly at the limit
FitAtLimit == <<<<Float(-1), Float(-1)>>, <<Float(10), Float(10)>>, Float(0)>>

\* the second axis just below the limit
FitBelowLimit == <<<<Float(50), Float(50)>>, <<Float(20), Frac(9, 14)>>, Float(90)>>

\* the first axis at the limit, the second longer
FitLimitReversed == <<<<Float(50), Float(50)>>, <<Float(10), Frac(30, 4)>>, Float(90)>>

Contours ==
    {[npts |-> 4, fit |-> FitDisk],
     [npts |-> 5, fit |-> FitDisk],
     [npts |-> 5, fit |-> FitReversed],
     [npts |-> 5, fit |-> FitArtifact],
     [npts |-> 5, fit |-> FitAtLimit],
     [npts |-> 6, fit |-> FitBelowLimit],
     [npts |-> 7, fit |-> FitLimitReversed]}

MainContours ==
    {[npts |-> 4, fit |-> FitDisk],
     [npts |-> 5, fit |-> FitDisk],
     [npts |-> 5, fit |-> FitReversed],
     [npts |-> 5, fit |-> FitArtifact]}

\* the decoded grids whose curves are drawn from S
Grids(S) ==
    {[ok |-> TRUE, contours |-> cs] :
        cs \in UNION {[1..k -> S] : k \in 0..MaxContours}}

(***************************************************************************)
(* main.                                                                   *)
(***************************************************************************)
\* src/main.py:86, before the output is opened
Init ==
    /\ \E walk \in Walks(MainFiles, MaxImages) : images = collect_images(walk)
    /\ pc = "open"
    /\ idx = 0
    /\ img = None
    /\ image_id = <<>>
    /\ detections = <<>>
    /\ fitted = <<>>
    /\ out = <<>>
    /\ owner = <<>>
    /\ log = <<>>
    /\ ids = <<>>

\* src/main.py:89-103
Open ==
    /\ pc = "open"
    /\ out' = <<HEADER>>
    /\ owner' = <<0>>
    /\ idx' = 1
    /\ pc' = "imread"
    /\ UNCHANGED <<images, img, image_id, detections, fitted, log, ids>>

\* A mutant of ImreadFails: a sentinel row is written for the unreadable image.
ImreadFailsSentinel ==
    /\ pc = "imread"
    /\ idx <= Len(images)
    /\ img' = None
    /\ out' = Append(out, sentinel_row(<<>>))
    /\ owner' = Append(owner, idx)
    /\ log' = Append(log, [decoded |-> FALSE, identified |-> FALSE,
                           id |-> <<>>, detections |-> <<>>])
    /\ idx' = idx + 1
    /\ UNCHANGED <<pc, images, image_id, detections, fitted, ids>>

\* src/main.py:103-107: imread returns None, the image is skipped
ImreadFails ==
    /\ pc = "imread"
    /\ idx <= Len(images)
    /\ img' = None
    /\ log' = Append(log, [decoded |-> FALSE, identified |-> FALSE,
                           id |-> <<>>, detections |-> <<>>])
    /\ idx' = idx + 1
    /\ UNCHANGED <<pc, images, image_id, detections, fitted, out, owner, ids>>

\* src/main.py:103-105: imread returns a grid
ImreadDecodes ==
    /\ pc = "imread"
    /\ idx <= Len(images)
    /\ \E grid \in Grids(MainContours) : img' = grid
    /\ pc' = "identify"
    /\ UNCHANGED <<images, idx, image_id, detections, fitted, out, owner, log, ids>>

\* src/main.py:109, image_id_from_path returns
Identify ==
    /\ pc = "identify"
    /\ ~image_id_raises(images[idx], DATASET_ROOT)
    /\ image_id' = image_id_from_path(images[idx], DATASET_ROOT)
    /\ pc' = "detect"
    /\ UNCHANGED <<images, idx, img, detections, fitted, out, owner, log, ids>>

\* src/main.py:109, image_id_from_path raises: nothing catches the IndexError,
\* the with block closes the file and the process ends
IdentifyRaises ==
    /\ pc = "identify"
    /\ image_id_raises(images[idx], DATASET_ROOT)
    /\ log' = Append(log, [decoded |-> TRUE, identified |-> FALSE,
                           id |-> <<>>, detections |-> <<>>])
    /\ pc' = "aborted"
    /\ UNCHANGED <<images, idx, img, image_id, detections, fitted, out, owner, ids>>

\* src/main.py:110
Detect ==
    /\ pc = "detect"
    /\ detections' = detect_craters(img).detections
    /\ fitted' = detect_craters(img).fitted
    /\ pc' = "write"
    /\ UNCHANGED <<images, idx, img, image_id, out, owner, log, ids>>

\* src/main.py:115-134, and back to the head of the loop
WriteRows ==
    /\ pc = "write"
    /\ idx \in 1..Len(images)
    /\ out' = out \o rows_of(detections, image_id)
    /\ owner' = owner \o [k \in 1..Len(rows_of(detections, image_id)) |-> idx]
    /\ log' = Append(log, [decoded |-> TRUE, identified |-> TRUE,
                           id |-> image_id, detections |-> detections])
    /\ idx' = idx + 1
    /\ pc' = "imread"
    /\ UNCHANGED <<images, img, image_id, detections, fitted, ids>>

\* src/main.py:103, 136: the list is exhausted
Finish ==
    /\ pc = "imread"
    /\ idx > Len(images)
    /\ pc' = "done"
    /\ UNCHANGED <<images, idx, img, image_id, detections, fitted, out, owner, log, ids>>

Next ==
    \/ Open
    \/ ImreadFails
    \/ ImreadDecodes
    \/ Identify
    \/ IdentifyRaises
    \/ Detect
    \/ WriteRows
    \/ Finish

Spec == Init /\ [][Next]_vars

(***************************************************************************)
(* detect_craters alone, on every grid of at most MaxContours curves.      *)
(***************************************************************************)
InitDetect ==
    /\ img \in Grids(Contours)
    /\ pc = "detect"
    /\ images = <<>>
    /\ idx = 0
    /\ image_id = <<>>
    /\ detections = <<>>
    /\ fitted = <<>>
    /\ out = <<>>
    /\ owner = <<>>
    /\ log = <<>>
    /\ ids = <<>>

NextDetect == Detect

SpecDetect == InitDetect /\ [][NextDetect]_vars

(***************************************************************************)
(* image_id_from_path alone, on every pair of files of one dataset tree.   *)
(***************************************************************************)
InitId ==
    /\ \E walk \in {w \in [1..2 -> Files] : w[1] # w[2]} :
           images = collect_images(walk)
    /\ pc = "ids"
    /\ idx = 0
    /\ img = None
    /\ image_id = <<>>
    /\ detections = <<>>
    /\ fitted = <<>>
    /\ out = <<>>
    /\ owner = <<>>
    /\ log = <<>>
    /\ ids = <<>>

\* src/main.py:27-36 on the next collected image
IdReturns ==
    /\ pc = "ids"
    /\ Len(ids) < Len(images)
    /\ ~image_id_raises(images[Len(ids) + 1], DATASET_ROOT)
    /\ ids' = Append(ids, [raised |-> FALSE,
                           id |-> image_id_from_path(images[Len(ids) + 1],
                                                     DATASET_ROOT)])
    /\ UNCHANGED <<pc, images, idx, img, image_id, detections, fitted, out, owner, log>>

\* src/main.py:36 raising IndexError on the next collected image
IdRaises ==
    /\ pc = "ids"
    /\ Len(ids) < Len(images)
    /\ image_id_raises(images[Len(ids) + 1], DATASET_ROOT)
    /\ ids' = Append(ids, [raised |-> TRUE, id |-> <<>>])
    /\ UNCHANGED <<pc, images, idx, img, image_id, detections, fitted, out, owner, log>>

NextId == IdReturns \/ IdRaises

SpecId == InitId /\ [][NextId]_vars

(***************************************************************************)
(* The claims.                                                             *)
(***************************************************************************)
\* the positions of the output rows written while image i was processed
RowsOf(i) == {k \in 1..Len(out) : owner[k] = i}

IsSentinel(row) ==
    /\ row[1] = -100
    /\ row[2] = -100
    /\ row[3] = -100
    /\ row[4] = -100
    /\ row[5] = -100

\* the segments of a string between its '/' characters
RECURSIVE Split(_, _)
Split(s, seg) ==
    IF s = <<>> THEN <<seg>>
    ELSE IF Head(s) = "/" THEN <<seg>> \o Split(Tail(s), <<>>)
    ELSE Split(Tail(s), Append(seg, Head(s)))

\* name without its image extension; a name that is nothing but the
\* extension has none to lose
WithoutExtension(name) ==
    LET exts == {IMAGE_EXTENSIONS[k] : k \in 1..Len(IMAGE_EXTENSIONS)}
        cut  == {n \in 1..(Len(name) - 1) :
                    lower(SubSeq(name, n + 1, Len(name))) \in exts}
    IN  IF cut = {} THEN name
        ELSE SubSeq(name, 1, CHOOSE n \in cut : TRUE)

RelParts(k) == SubSeq(images[k], Len(DATASET_ROOT) + 1, Len(images[k]))

\* C1: every decoded image whose processing has ended contributes at least
\* one row: exactly the sentinel row with its identifier when detect_craters
\* returned no ellipse, else exactly one non-sentinel row per ellipse, each
\* with its identifier.
C1_DecodedImageRows ==
    \A i \in 1..Len(log) :
        log[i].decoded =>
            LET n == Len(log[i].detections)
            IN  /\ RowsOf(i) # {}
                /\ n = 0 =>
                       /\ Cardinality(RowsOf(i)) = 1
                       /\ \A k \in RowsOf(i) :
                              IsSentinel(out[k]) /\ out[k][6] = log[i].id
                /\ n >= 1 =>
                       /\ Cardinality(RowsOf(i)) = n
                       /\ \A k \in RowsOf(i) :
                              ~IsSentinel(out[k]) /\ out[k][6] = log[i].id

\* C2: image_id_from_path fails for every image with fewer than two
\* directory components before its filename.
C2_FailsBelowTwoDirectories ==
    \A k \in 1..Len(ids) : Len(RelParts(k)) < 3 => ids[k].raised

\* C3: every ellipse detect_craters returned, and every non-sentinel row
\* written, has semiMajor >= semiMinor > 0.
C3_MajorAtLeastMinor ==
    /\ \A k \in 1..Len(detections) :
           detections[k][3] >= detections[k][4] /\ detections[k][4] > 0
    /\ \A k \in 2..Len(out) :
           ~IsSentinel(out[k]) => out[k][3] >= out[k][4] /\ out[k][4] > 0

C3_Witness ==
    /\ pc = "imread"
    /\ \E c \in 1..Len(fitted) : fitted[c].fit = FitReversed
    /\ \E k \in 2..Len(out) : out[k][3] = 2000 /\ out[k][4] = 1000

\* C4: a step in which imread returns None writes no row, does not abort and
\* moves on to the next image with everything else as it was; no row is ever
\* written for an image that failed to decode.
C4_DecodeFailureSkips ==
    [][/\ (pc = "imread" /\ idx <= Len(images) /\ img' = None) =>
              /\ out' = out
              /\ owner' = owner
              /\ pc' = "imread"
              /\ idx' = idx + 1
              /\ images' = images
              /\ image_id' = image_id
              /\ detections' = detections
       /\ \A i \in 1..Len(log') :
              ~log'[i].decoded => \A k \in 1..Len(owner') : owner'[k] # i]_vars

C4_Witness ==
    /\ pc = "done"
    /\ \E i, j \in 1..Len(log) :
           /\ i < j
           /\ ~log[i].decoded
           /\ log[j].identified
           /\ RowsOf(j) # {}

\* C5: no image is fatal: the run never aborts and, when it is done, every
\* collected image has been visited.
C5_NoImageIsFatal ==
    /\ pc # "aborted"
    /\ pc = "done" => Len(log) = Len(images)

\* C6: a returned identifier has exactly the three '/'-separated segments
\* first component, second component (of the path relative to the root, case
\* preserved) and filename without its extension.
C6_IdentifierSegments ==
    \A k \in 1..Len(ids) :
        ~ids[k].raised =>
            Split(ids[k].id, <<>>) =
                <<RelParts(k)[1], RelParts(k)[2],
                  WithoutExtension(Last(images[k]))>>

C6_Witness ==
    \E k \in 1..Len(ids) :
        /\ RelParts(k) = <<<<"A">>, x_png, X_PNG>>
        /\ ids[k].id = <<"A", "/", "x", ".", "p", "n", "g", "/", "X">>

\* C7: the rows are written image after image in processing order, the rows
\* of one image are contiguous, and the k-th row of an image is the row of
\* the k-th ellipse detect_craters returned for it.
C7_RowsInProcessingOrder ==
    /\ \A k, l \in 1..Len(owner) : k < l => owner[k] <= owner[l]
    /\ \A k \in 2..Len(owner) : owner[k] \in 1..Len(log) /\ log[owner[k]].identified
    /\ Len(log) <= Len(images)
    /\ \A i \in 1..Len(log) :
           log[i].identified =>
               LET first == CHOOSE k \in RowsOf(i) : \A l \in RowsOf(i) : k <= l
                   dets  == log[i].detections
               IN  /\ RowsOf(i) # {}
                   /\ dets # <<>> =>
                          /\ Cardinality(RowsOf(i)) = Len(dets)
                          /\ \A n \in 1..Len(dets) :
                                 out[first + n - 1] =
                                     <<round(dets[n][1]), round(dets[n][2]),
                                       round(dets[n][3]), round(dets[n][4]),
                                       round(dets[n][5]), log[i].id, -100>>

C7_Witness ==
    /\ pc = "done"
    /\ Len(log) = 2
    /\ log[1].identified
    /\ log[2].identified
    /\ Len(log[1].detections) = 2
    /\ log[1].detections[1] # log[1].detections[2]
    /\ Len(out) = 4

\* the curve is fitted and its fit is kept
Qualifies(cnt) ==
    /\ cnt.npts >= 5
    /\ cnt.fit[2][1] >= 160
    /\ cnt.fit[2][2] >= 160

\* the number of qualifying curves among the first i
Rank(cs, i) == Cardinality({j \in 1..i : Qualifies(cs[j])})

\* C8: once detect_craters has returned, a curve has contributed one ellipse,
\* in its turn, if and only if it has at least 5 points and both fitted axes
\* are at least 10; the fit was called on exactly the curves with at least 5
\* points.
C8_CurveContributes ==
    pc = "write" =>
        LET cs == img.contours
        IN  /\ Len(detections) = Rank(cs, Len(cs))
            /\ \A i \in 1..Len(cs) :
                   Qualifies(cs[i]) =>
                       /\ detections[Rank(cs, i)][1] = cs[i].fit[1][1]
                       /\ detections[Rank(cs, i)][2] = cs[i].fit[1][2]
                       /\ detections[Rank(cs, i)][5] = cs[i].fit[3]
            /\ fitted = SelectSeq(cs, LAMBDA c : c.npts >= 5)

C8_Witness ==
    /\ pc = "write"
    /\ img.contours = <<[npts |-> 5, fit |-> FitArtifact],
                        [npts |-> 5, fit |-> FitAtLimit]>>
    /\ Len(detections) = 1
    /\ Len(fitted) = 2

\* C9: for every accepted fit ((cx, cy), (w, h), angle) the ellipse emitted
\* is (cx, cy, max(w, h)/2, min(w, h)/2, angle).
C9_AxesSwappedOnly ==
    pc = "write" =>
        LET acc == SelectSeq(img.contours, Qualifies)
        IN  /\ Len(detections) = Len(acc)
            /\ \A k \in 1..Len(acc) :
                   LET w == acc[k].fit[2][1]
                       h == acc[k].fit[2][2]
                       d == detections[k]
                   IN  /\ d[1] = acc[k].fit[1][1]
                       /\ d[2] = acc[k].fit[1][2]
                       /\ 2 * d[3] = (IF w >= h THEN w ELSE h)
                       /\ 2 * d[4] = (IF w >= h THEN h ELSE w)
                       /\ d[5] = acc[k].fit[3]

C9_Witness ==
    /\ pc = "write"
    /\ \E k \in 1..Len(detections) :
           detections[k] = <<Frac(100, 2), Float(50), Float(20), Float(10), Float(30)>>

\* C10, as stated: two distinct collected image paths never get the same
\* identifier.
C10_IdentifierIsKey ==
    \A i, j \in 1..Len(ids) :
        (i # j /\ ~ids[i].raised /\ ~ids[j].raised) => ids[i].id # ids[j].id

\* C10, amended: two collected image paths get the same identifier exactly
\* when they agree on the first two components of the path relative to the
\* root and on the filename without its extension.
C10_SameIdSameTriple ==
    \A i, j \in 1..Len(ids) :
        (i # j /\ ~ids[i].raised /\ ~ids[j].raised) =>
            (ids[i].id = ids[j].id <=>
                /\ RelParts(i)[1] = RelParts(j)[1]
                /\ RelParts(i)[2] = RelParts(j)[2]
                /\ WithoutExtension(Last(images[i])) =
                       WithoutExtension(Last(images[j])))

C10_Witness ==
    /\ Len(ids) = 2
    /\ ~ids[1].raised
    /\ ~ids[2].raised
    /\ Len(RelParts(1)) = 3
    /\ Len(RelParts(2)) = 3
    /\ Last(images[1]) = Last(images[2])
    /\ ids[1].id # ids[2].id

====
